---------------------------- MODULE Spec2Model ----------------------------
(***************************************************************************)
(* Sweep-and-select controller of the repository: the two entry points     *)
(* experiments/train_and_push.py (the tracked sweep: MLflow run recorder,  *)
(* Prometheus push, sys.exit) and experiments/demo_best_model.py (the demo *)
(* sweep: locally minted run ids, no recorder).                            *)
(*                                                                         *)
(* A sweep is one execution of main().  Every variable that belongs to a   *)
(* sweep is a function over the sweeps of the behaviour; the wall clock,   *)
(* the tracking server, the trainer and the best-model directory are the   *)
(* environment all sweeps share.                                           *)
(*                                                                         *)
(* The external collaborators are black boxes: a call either returns or    *)
(* raises, and each action that makes one draws the outcome.  Accuracy is  *)
(* accuracy_score = correct / len(y_test); the test set is fixed, so two   *)
(* accuracies compare as their numbers of correct predictions and the      *)
(* model keeps that number, 0..MaxAcc.                                     *)
(***************************************************************************)
EXTENDS Integers, Sequences, FiniteSets, TLC

\* Bounds of the model.
MaxAcc == 2      \* accuracies are 0..MaxAcc (0 is accuracy 0.0)
MaxTick == 1     \* seconds that may pass between two readings of the clock
MaxPushFailures == 1  \* pushes to the gateway that may fail in one sweep

VARIABLES
  kind,           \* sweep -> "tracked" | "demo": the entry point it executes
  pc,             \* sweep -> position in main()
  i,              \* sweep -> loop index of enumerate(HYPERPARAMETERS), 0-based
  run_id,         \* sweep -> run_id of the current iteration
  model,          \* sweep -> model of the current iteration
  accuracy,       \* sweep -> accuracy of the current iteration
  best_accuracy,  \* sweep -> best_accuracy
  best_model,     \* sweep -> best_model
  best_run_id,    \* sweep -> best_run_id
  active_run,     \* sweep -> mlflow's stack of active runs: those `with mlflow.start_run()` holds open
  exit_code,      \* sweep -> None while running, <<code>> once the process ended
  raised,         \* sweep -> None, or <<call>>: the call whose exception left main() uncaught
  runs,           \* sweep -> history of its Runs, one record per loop iteration
  store,          \* the writes made to BEST_MODEL_DIR, in order
  clock,          \* wall clock, in seconds of the day
  mlflow_runs,    \* number of runs the tracking server has created
  trainer         \* configuration -> outcome of training it (fixed data and seed)

vars == <<kind, pc, i, run_id, model, accuracy, best_accuracy, best_model,
          best_run_id, active_run, exit_code, raised, runs, store, clock,
          mlflow_runs, trainer>>

\* Python's None; also the empty model handle and the empty run id.
None == <<>>

Sweeps == DOMAIN pc

----------------------------------------------------------------------------
\* Configuration

TRACKED_HYPERPARAMETERS ==
  << [n_estimators |-> 50,  max_depth |-> 3,  min_samples_split |-> 2],
     [n_estimators |-> 100, max_depth |-> 5,  min_samples_split |-> 2],
     [n_estimators |-> 150, max_depth |-> 7,  min_samples_split |-> 2],
     [n_estimators |-> 100, max_depth |-> 5,  min_samples_split |-> 5],
     [n_estimators |-> 200, max_depth |-> 10, min_samples_split |-> 2],
     [n_estimators |-> 100, max_depth |-> 3,  min_samples_split |-> 10] >>

DEMO_HYPERPARAMETERS ==
  << [n_estimators |-> 50,  max_depth |-> 3,  min_samples_split |-> 2],
     [n_estimators |-> 100, max_depth |-> 5,  min_samples_split |-> 2],
     [n_estimators |-> 150, max_depth |-> 7,  min_samples_split |-> 2] >>

HYPERPARAMETERS(k) ==
  IF k = "tracked" THEN TRACKED_HYPERPARAMETERS ELSE DEMO_HYPERPARAMETERS

BEST_MODEL_DIR == <<"../best_model">>

----------------------------------------------------------------------------
\* Strings, as sequences of characters

Digit(d) == <<"0", "1", "2", "3", "4", "5", "6", "7", "8", "9">>[d + 1]

\* str(n) of a natural number, as an f-string formats it
RECURSIVE Str(_)
Str(n) == IF n < 10 THEN <<Digit(n)>> ELSE Str(n \div 10) \o <<Digit(n % 10)>>

\* a %H, %M or %S field: two digits, zero padded
Pad2(n) == <<Digit(n \div 10), Digit(n % 10)>>

\* datetime.now().strftime('%H%M%S') at second `now` of the day
Strftime(now) ==
  Pad2(now \div 3600) \o Pad2((now % 3600) \div 60) \o Pad2(now % 60)

\* f"demo_run_{i+1}_{datetime.now().strftime('%H%M%S')}"
DemoRunIdNoIndex(idx, now) == <<"demo_run_">> \o Strftime(now)
DemoRunId(idx, now) == <<"demo_run_">> \o Str(idx + 1) \o <<"_">> \o Strftime(now)

\* run.info.run_id of the n-th run the tracking server creates.  The server
\* names each run by a fresh uuid; the model names it by its creation number.
MlflowRunId(n) == <<"mlflow_run_">> \o Str(n)

\* os.path.join(BEST_MODEL_DIR, f'best_model_{run_id}.pkl')
ModelPath(rid) == BEST_MODEL_DIR \o <<"/", "best_model_">> \o rid \o <<".pkl">>

----------------------------------------------------------------------------
\* Trainer

Accuracies == 0..MaxAcc

\* train_model either returns (model, accuracy[, loss]) or raises
TrainerOutcomes ==
  {[ok |-> FALSE]} \cup {[ok |-> TRUE, accuracy |-> a] : a \in Accuracies}

\* The outcomes train_model may have for configuration cfg: data, split and
\* random_state are fixed, so a configuration trained before trains alike.
OutcomesOf(cfg) ==
  IF cfg \in DOMAIN trainer THEN {trainer[cfg]} ELSE TrainerOutcomes

Remember(cfg, o) ==
  IF cfg \in DOMAIN trainer THEN trainer ELSE (cfg :> o) @@ trainer

----------------------------------------------------------------------------
\* Best tracking

\* `if accuracy > best_accuracy:`
IsBetterOrEqual(acc, best) == acc >= best
IsBetter(acc, best) == acc > best

----------------------------------------------------------------------------
\* Run history

\* The Run of the current iteration of sweep s
Current(s) == runs[s][Len(runs[s])]

NewRun(s, rid) ==
  [cfg |-> i[s] + 1, run_id |-> rid, trained |-> "no", accuracy |-> 0,
   model |-> None, push |-> "none", push_run_id |-> None, considered |-> FALSE]

Amend(s, r) == [runs EXCEPT ![s] = [@ EXCEPT ![Len(@)] = r]]

----------------------------------------------------------------------------
\* Control flow shared by the two entry points

\* a loop that is left after its first pass
LoopBreaks(s, idx) == "select"

\* `for i, params in enumerate(HYPERPARAMETERS):` with index idx next: the
\* first position of the loop body, or the position after the loop
LoopHead(s, idx) ==
  IF idx < Len(HYPERPARAMETERS(kind[s]))
    THEN (IF kind[s] = "tracked" THEN "start_run" ELSE "mint")
    ELSE "select"

\* mlflow.end_run, which the exit of the `with` block calls: the run on top of
\* the stack of active runs, if any, is popped
EndActiveRun(stack) == IF stack = <<>> THEN stack ELSE SubSeq(stack, 1, Len(stack) - 1)

\* An uncaught exception that leaves main() with the active run still open
UncaughtLeavesRunOpen(s, call) ==
  /\ pc' = [pc EXCEPT ![s] = "crashed"]
  /\ raised' = [raised EXCEPT ![s] = <<call>>]
  /\ exit_code' = [exit_code EXCEPT ![s] = <<1>>]
  /\ UNCHANGED active_run

\* An exception raised by `call` that nothing catches: it leaves the `with`
\* block, whose __exit__ ends the active run, then main(), and the
\* interpreter exits with status 1.
Uncaught(s, call) ==
  /\ pc' = [pc EXCEPT ![s] = "crashed"]
  /\ raised' = [raised EXCEPT ![s] = <<call>>]
  /\ exit_code' = [exit_code EXCEPT ![s] = <<1>>]
  /\ active_run' = [active_run EXCEPT ![s] = EndActiveRun(@)]

Goto(s, label) ==
  /\ pc' = [pc EXCEPT ![s] = label]
  /\ UNCHANGED <<raised, exit_code>>

\* A Run Recorder call made inside the `with` block, at position `at`: on
\* success control moves to `next`, a failure propagates
RecorderCall(s, at, call, next) ==
  /\ kind[s] = "tracked"
  /\ pc[s] = at
  /\ \/ Goto(s, next) /\ UNCHANGED active_run
     \/ Uncaught(s, call)
  /\ UNCHANGED <<kind, i, run_id, model, accuracy, best_accuracy, best_model,
                 best_run_id, runs, store, clock, mlflow_runs, trainer>>

----------------------------------------------------------------------------
\* train_and_push.py, main()

\* set_tracking_uri, create_experiment or get_experiment_by_name, load_data.
\* create_experiment's MlflowException is caught; get_experiment_by_name may
\* raise in turn or return None, and then nothing catches the error.
Setup(s) ==
  /\ kind[s] = "tracked"
  /\ pc[s] = "setup"
  /\ \/ Goto(s, LoopHead(s, 0))
     \/ Uncaught(s, "get_experiment_by_name")
  /\ UNCHANGED <<kind, i, run_id, model, accuracy, best_accuracy, best_model,
                 best_run_id, active_run, runs, store, clock, mlflow_runs,
                 trainer>>

\* `with mlflow.start_run(experiment_id=experiment_id) as run:` and
\* `run_id = run.info.run_id`
StartRun(s) ==
  /\ kind[s] = "tracked"
  /\ pc[s] = "start_run"
  /\ \/ /\ mlflow_runs' = mlflow_runs + 1
        /\ run_id' = [run_id EXCEPT ![s] = MlflowRunId(mlflow_runs')]
        /\ active_run' = [active_run EXCEPT ![s] = Append(@, MlflowRunId(mlflow_runs'))]
        /\ runs' = [runs EXCEPT ![s] = Append(@, NewRun(s, MlflowRunId(mlflow_runs')))]
        /\ Goto(s, "log_params")
     \/ /\ Uncaught(s, "start_run")
        /\ UNCHANGED <<mlflow_runs, run_id, runs>>
  /\ UNCHANGED <<kind, i, model, accuracy, best_accuracy, best_model,
                 best_run_id, store, clock, trainer>>

\* mlflow.log_params(params), log_param('run_number'), log_param('timestamp')
LogParams(s) == RecorderCall(s, "log_params", "log_params", "train_model")

\* mlflow.log_metric('accuracy'), mlflow.log_metric('loss')
LogMetrics(s) == RecorderCall(s, "log_metrics", "log_metric", "log_model")

\* mlflow.sklearn.log_model(model, "model")
LogModel(s) == RecorderCall(s, "log_model", "log_model", "log_meta")

\* mlflow.log_param('dataset'), log_param('test_size'), log_param('random_state')
LogMeta(s) == RecorderCall(s, "log_meta", "log_param", "push")

\* push_metrics_to_prometheus without its try/except
PushUncaught(s, ok) ==
  /\ runs' = Amend(s, [Current(s) EXCEPT !.push = IF ok THEN "ok" ELSE "failed",
                                           !.push_run_id = run_id[s]])
  /\ IF ok THEN Goto(s, "track") /\ UNCHANGED active_run
           ELSE Uncaught(s, "push_to_gateway")

\* push_metrics_to_prometheus(accuracy, loss, run_id), which labels the two
\* gauges with run_id: the whole body is in
\* `try: ... except Exception as e: logger.error(...)`, so it returns either way
push_metrics_to_prometheus(s, ok) ==
  /\ runs' = Amend(s, [Current(s) EXCEPT !.push = IF ok THEN "ok" ELSE "failed",
                                           !.push_run_id = run_id[s]])
  /\ Goto(s, "track")
  /\ UNCHANGED active_run

\* the outcomes push_to_gateway may have in sweep s
PushOutcomes(s) ==
  IF Cardinality({k \in 1..Len(runs[s]) : runs[s][k].push = "failed"}) < MaxPushFailures
    THEN BOOLEAN
    ELSE {TRUE}

PushMetrics(s) ==
  /\ kind[s] = "tracked"
  /\ pc[s] = "push"
  /\ \E ok \in PushOutcomes(s) : push_metrics_to_prometheus(s, ok)
  /\ UNCHANGED <<kind, i, run_id, model, accuracy, best_accuracy, best_model,
                 best_run_id, store, clock, mlflow_runs, trainer>>

\* the end of the `with` block: mlflow ends the active run, i advances
EndRun(s) ==
  /\ kind[s] = "tracked"
  /\ pc[s] = "end_run"
  /\ \/ /\ active_run' = [active_run EXCEPT ![s] = EndActiveRun(@)]
        /\ i' = [i EXCEPT ![s] = @ + 1]
        /\ Goto(s, LoopHead(s, i[s] + 1))
     \/ /\ Uncaught(s, "end_run")
        /\ UNCHANGED i
  /\ UNCHANGED <<kind, run_id, model, accuracy, best_accuracy, best_model,
                 best_run_id, runs, store, clock, mlflow_runs, trainer>>

----------------------------------------------------------------------------
\* demo_best_model.py, main()

\* run_id = f"demo_run_{i+1}_{datetime.now().strftime('%H%M%S')}"
MintRunId(s) ==
  /\ kind[s] = "demo"
  /\ pc[s] = "mint"
  /\ \E d \in 0..MaxTick : clock' = (clock + d) % (24 * 3600)
  /\ run_id' = [run_id EXCEPT ![s] = DemoRunId(i[s], clock')]
  /\ runs' = [runs EXCEPT ![s] = Append(@, NewRun(s, DemoRunId(i[s], clock')))]
  /\ Goto(s, "train_model")
  /\ UNCHANGED <<kind, i, model, accuracy, best_accuracy, best_model,
                 best_run_id, active_run, store, mlflow_runs, trainer>>

----------------------------------------------------------------------------
\* Both entry points

\* model, accuracy[, loss] = train_model(X_train, X_test, y_train, y_test, params[, run_id])
TrainModel(s) ==
  /\ pc[s] = "train_model"
  /\ \E o \in OutcomesOf(HYPERPARAMETERS(kind[s])[i[s] + 1]) :
       /\ trainer' = Remember(HYPERPARAMETERS(kind[s])[i[s] + 1], o)
       /\ IF o.ok
            THEN /\ model' = [model EXCEPT ![s] = <<s, i[s] + 1>>]
                 /\ accuracy' = [accuracy EXCEPT ![s] = o.accuracy]
                 /\ runs' = Amend(s, [Current(s) EXCEPT !.trained = "ok",
                                        !.accuracy = o.accuracy,
                                        !.model = <<s, i[s] + 1>>])
                 /\ Goto(s, IF kind[s] = "tracked" THEN "log_metrics" ELSE "track")
                 /\ UNCHANGED active_run
            ELSE /\ runs' = Amend(s, [Current(s) EXCEPT !.trained = "failed"])
                 /\ Uncaught(s, "train_model")
                 /\ UNCHANGED <<model, accuracy>>
  /\ UNCHANGED <<kind, i, run_id, best_accuracy, best_model, best_run_id,
                 store, clock, mlflow_runs>>

\* save_best_model handed the loop's run_id instead of best_run_id
save_under_last_run_id(s, m, rid) ==
  store' = Append(store, [sweep |-> s, path |-> ModelPath(run_id[s]), model |-> m])

\* save_best_model: os.makedirs, then pickle.dump to
\* BEST_MODEL_DIR/best_model_<run_id>.pkl
save_best_model(s, m, rid) ==
  store' = Append(store, [sweep |-> s, path |-> ModelPath(rid), model |-> m])

\* the best-tracking step that also persists every new best
TrackBestAndSave(s) ==
  /\ pc[s] = "track"
  /\ IF IsBetter(accuracy[s], best_accuracy[s])
       THEN /\ best_accuracy' = [best_accuracy EXCEPT ![s] = accuracy[s]]
            /\ best_model' = [best_model EXCEPT ![s] = model[s]]
            /\ best_run_id' = [best_run_id EXCEPT ![s] = run_id[s]]
            /\ save_best_model(s, model[s], run_id[s])
       ELSE UNCHANGED <<best_accuracy, best_model, best_run_id, store>>
  /\ runs' = Amend(s, [Current(s) EXCEPT !.considered = TRUE])
  /\ IF kind[s] = "tracked"
       THEN Goto(s, "end_run") /\ UNCHANGED i
       ELSE i' = [i EXCEPT ![s] = @ + 1] /\ Goto(s, LoopHead(s, i[s] + 1))
  /\ UNCHANGED <<kind, run_id, model, accuracy, active_run, clock,
                 mlflow_runs, trainer>>

\* the best-tracking step without `best_run_id = run_id`
TrackBestWithoutRunId(s) ==
  /\ pc[s] = "track"
  /\ IF IsBetter(accuracy[s], best_accuracy[s])
       THEN /\ best_accuracy' = [best_accuracy EXCEPT ![s] = accuracy[s]]
            /\ best_model' = [best_model EXCEPT ![s] = model[s]]
       ELSE UNCHANGED <<best_accuracy, best_model>>
  /\ UNCHANGED best_run_id
  /\ runs' = Amend(s, [Current(s) EXCEPT !.considered = TRUE])
  /\ IF kind[s] = "tracked"
       THEN Goto(s, "end_run") /\ UNCHANGED i
       ELSE i' = [i EXCEPT ![s] = @ + 1] /\ Goto(s, LoopHead(s, i[s] + 1))
  /\ UNCHANGED <<kind, run_id, model, accuracy, active_run, store, clock,
                 mlflow_runs, trainer>>

\* the best-tracking step on module-level variables, which every execution
\* of main() in the process shares
TrackBestShared(s) ==
  /\ pc[s] = "track"
  /\ IF IsBetter(accuracy[s], best_accuracy[s])
       THEN /\ best_accuracy' = [r \in Sweeps |-> accuracy[s]]
            /\ best_model' = [r \in Sweeps |-> model[s]]
            /\ best_run_id' = [r \in Sweeps |-> run_id[s]]
       ELSE UNCHANGED <<best_accuracy, best_model, best_run_id>>
  /\ runs' = Amend(s, [Current(s) EXCEPT !.considered = TRUE])
  /\ IF kind[s] = "tracked"
       THEN Goto(s, "end_run") /\ UNCHANGED i
       ELSE i' = [i EXCEPT ![s] = @ + 1] /\ Goto(s, LoopHead(s, i[s] + 1))
  /\ UNCHANGED <<kind, run_id, model, accuracy, active_run, store, clock,
                 mlflow_runs, trainer>>

\* the best-tracking step with `>=` in the demo and `>` in train_and_push
TrackBestDemoKeepsLatest(s) ==
  /\ pc[s] = "track"
  /\ IF (IF kind[s] = "demo" THEN IsBetterOrEqual(accuracy[s], best_accuracy[s])
                              ELSE IsBetter(accuracy[s], best_accuracy[s]))
       THEN /\ best_accuracy' = [best_accuracy EXCEPT ![s] = accuracy[s]]
            /\ best_model' = [best_model EXCEPT ![s] = model[s]]
            /\ best_run_id' = [best_run_id EXCEPT ![s] = run_id[s]]
       ELSE UNCHANGED <<best_accuracy, best_model, best_run_id>>
  /\ runs' = Amend(s, [Current(s) EXCEPT !.considered = TRUE])
  /\ IF kind[s] = "tracked"
       THEN Goto(s, "end_run") /\ UNCHANGED i
       ELSE i' = [i EXCEPT ![s] = @ + 1] /\ Goto(s, LoopHead(s, i[s] + 1))
  /\ UNCHANGED <<kind, run_id, model, accuracy, active_run, store, clock,
                 mlflow_runs, trainer>>

\* `if accuracy > best_accuracy:` and its three assignments; in the demo the
\* loop body ends here and i advances
TrackBest(s) ==
  /\ pc[s] = "track"
  /\ IF IsBetter(accuracy[s], best_accuracy[s])
       THEN /\ best_accuracy' = [best_accuracy EXCEPT ![s] = accuracy[s]]
            /\ best_model' = [best_model EXCEPT ![s] = model[s]]
            /\ best_run_id' = [best_run_id EXCEPT ![s] = run_id[s]]
       ELSE UNCHANGED <<best_accuracy, best_model, best_run_id>>
  /\ runs' = Amend(s, [Current(s) EXCEPT !.considered = TRUE])
  /\ IF kind[s] = "tracked"
       THEN Goto(s, "end_run") /\ UNCHANGED i
       ELSE i' = [i EXCEPT ![s] = @ + 1] /\ Goto(s, LoopHead(s, i[s] + 1))
  /\ UNCHANGED <<kind, run_id, model, accuracy, active_run, store, clock,
                 mlflow_runs, trainer>>

\* after the loop, `if best_model is not None: save_best_model(...)`: main()
\* returns and the process exits with status 0
SaveBest(s) ==
  /\ pc[s] = "select"
  /\ best_model[s] # None
  /\ save_best_model(s, best_model[s], best_run_id[s])
  /\ pc' = [pc EXCEPT ![s] = "done"]
  /\ exit_code' = [exit_code EXCEPT ![s] = <<0>>]
  /\ UNCHANGED <<kind, i, run_id, model, accuracy, best_accuracy, best_model,
                 best_run_id, active_run, raised, runs, clock, mlflow_runs,
                 trainer>>

\* the `else:` branch.  train_and_push: logger.error("No model was trained
\* successfully!") and sys.exit(1).  demo_best_model: a print, and main()
\* returns.
NoModel(s) ==
  /\ pc[s] = "select"
  /\ best_model[s] = None
  /\ pc' = [pc EXCEPT ![s] = "no_model"]
  /\ exit_code' = [exit_code EXCEPT ![s] = IF kind[s] = "tracked" THEN <<1>> ELSE <<0>>]
  /\ UNCHANGED <<kind, i, run_id, model, accuracy, best_accuracy, best_model,
                 best_run_id, active_run, raised, runs, store, clock,
                 mlflow_runs, trainer>>

----------------------------------------------------------------------------
\* Specification: one sweep, of either entry point

Kinds == {"tracked", "demo"}

\* the sweep starts at 23:59:59, so that the clock passes midnight during it
ClockStart == 23 * 3600 + 59 * 60 + 59

InitSweeps(S) ==
  /\ kind \in [S -> Kinds]
  /\ pc = [s \in S |-> IF kind[s] = "tracked" THEN "setup" ELSE LoopHead(s, 0)]
  /\ i = [s \in S |-> 0]
  /\ run_id = [s \in S |-> None]
  /\ model = [s \in S |-> None]
  /\ accuracy = [s \in S |-> 0]
  /\ best_accuracy = [s \in S |-> 0]
  /\ best_model = [s \in S |-> None]
  /\ best_run_id = [s \in S |-> None]
  /\ active_run = [s \in S |-> <<>>]
  /\ exit_code = [s \in S |-> None]
  /\ raised = [s \in S |-> None]
  /\ runs = [s \in S |-> <<>>]
  /\ store = <<>>
  /\ clock = ClockStart
  /\ mlflow_runs = 0
  /\ trainer = <<>>

Init == InitSweeps({1})

Next ==
  \/ \E s \in Sweeps : Setup(s)
  \/ \E s \in Sweeps : StartRun(s)
  \/ \E s \in Sweeps : LogParams(s)
  \/ \E s \in Sweeps : TrainModel(s)
  \/ \E s \in Sweeps : LogMetrics(s)
  \/ \E s \in Sweeps : LogModel(s)
  \/ \E s \in Sweeps : LogMeta(s)
  \/ \E s \in Sweeps : PushMetrics(s)
  \/ \E s \in Sweeps : TrackBest(s)
  \/ \E s \in Sweeps : EndRun(s)
  \/ \E s \in Sweeps : MintRunId(s)
  \/ \E s \in Sweeps : SaveBest(s)
  \/ \E s \in Sweeps : NoModel(s)

Spec == Init /\ [][Next]_vars

\* the interpreter keeps executing main() until it returns or raises
SpecFair == Spec /\ WF_vars(Next)

----------------------------------------------------------------------------
\* Vocabulary of the properties

\* main() has ended: after the save, after the `else:` branch, or by an
\* uncaught exception
Ended(s) == pc[s] \in {"done", "no_model", "crashed"}

NumConfigs(s) == Len(HYPERPARAMETERS(kind[s]))

RunIndexes(s) == 1..Len(runs[s])

\* the Runs whose Trainer call returned, and those whose Trainer call raised
Succeeded(s) == {k \in RunIndexes(s) : runs[s][k].trained = "ok"}
Failed(s) == {k \in RunIndexes(s) : runs[s][k].trained = "failed"}

\* the Runs that have gone through the best-tracking step
Considered(s) == {k \in RunIndexes(s) : runs[s][k].considered}

\* the Artifact Store writes of sweep s
Writes(s) == SelectSeq(store, LAMBDA w : w.sweep = s)

\* the write that persists the model of Run k of sweep s under its run id
ArtifactOf(s, k) ==
  [sweep |-> s, path |-> ModelPath(runs[s][k].run_id), model |-> runs[s][k].model]

\* Run k has the highest accuracy among the Runs K, and is the earliest such
FirstMax(s, K, k) ==
  /\ k \in K
  /\ \A j \in K : runs[s][j].accuracy <= runs[s][k].accuracy
  /\ \A j \in K : j < k => runs[s][j].accuracy < runs[s][k].accuracy

\* the best tracker holds Run k
Holds(s, k) ==
  /\ best_model[s] = runs[s][k].model
  /\ best_run_id[s] = runs[s][k].run_id
  /\ best_accuracy[s] = runs[s][k].accuracy

\* the Run Recorder calls made during a Run
RunRecorderCalls == {"start_run", "log_params", "log_metric", "log_model", "log_param"}

----------------------------------------------------------------------------
\* Properties

\* C1: when every Trainer call of the sweep has succeeded (all configurations
\* trained, accuracies anywhere in [0,1]) and the sweep has ended, exactly the
\* model of the first Run with the maximum accuracy is persisted, under that
\* Run's identifier, and the persisted metric is that maximum.
C1_AllSucceedPersistsFirstMax ==
  \A s \in Sweeps :
    (Ended(s) /\ Succeeded(s) = 1..NumConfigs(s)) =>
      \E k \in RunIndexes(s) :
        /\ FirstMax(s, RunIndexes(s), k)
        /\ Writes(s) = <<ArtifactOf(s, k)>>
        /\ best_accuracy[s] = runs[s][k].accuracy

\* C2: a Trainer failure does not abort the sweep: the exception does not
\* leave main(), the failed Run is not considered by the best tracker, and a
\* sweep in which a Trainer call failed still ends having trained every
\* configuration.
C2_TrainerFailureIsolated ==
  \A s \in Sweeps :
    /\ raised[s] # <<"train_model">>
    /\ Failed(s) \cap Considered(s) = {}
    /\ (Ended(s) /\ Failed(s) # {}) =>
         Succeeded(s) \cup Failed(s) = 1..NumConfigs(s)

\* C3: when the sweep has ended with exactly one Trainer call having
\* succeeded and every other one having failed, the model of that Run is the
\* one persisted, whatever its position and its accuracy.
C3_OnlySuccessIsPersisted ==
  \A s \in Sweeps :
    (/\ Ended(s)
     /\ Cardinality(Succeeded(s)) = 1
     /\ Failed(s) # {}
     /\ Succeeded(s) \cup Failed(s) = RunIndexes(s)) =>
      \E k \in Succeeded(s) : Writes(s) = <<ArtifactOf(s, k)>>

\* C4: the failure of a Run Recorder call made during a Run (start_run,
\* log_params, log_metric, log_model, log_param) never propagates out of the
\* sweep.
C4_RecorderFailureContained ==
  \A s \in Sweeps : raised[s] = None \/ raised[s][1] \notin RunRecorderCalls

\* C5: a failed push never leaves push_metrics_to_prometheus: no sweep ends
\* by its exception, the Run whose push failed goes on to the best-tracking
\* step, and the tracker is always the selection made from the accuracies of
\* the Runs considered so far, whatever their pushes did: none if no accuracy
\* exceeds 0, else the first Run with the highest accuracy.
C5_PushFailureContained ==
  \A s \in Sweeps :
    /\ raised[s] # <<"push_to_gateway">>
    /\ \A k \in RunIndexes(s) :
         runs[s][k].push = "failed" =>
           \/ k \in Considered(s)
           \/ k = Len(runs[s]) /\ pc[s] = "track"
    /\ IF \A k \in Considered(s) : runs[s][k].accuracy = 0
         THEN best_model[s] = None /\ best_run_id[s] = None /\ best_accuracy[s] = 0
         ELSE \E k \in Considered(s) : FirstMax(s, Considered(s), k) /\ Holds(s, k)

\* a sweep has ended with its artifact persisted, the persisted Run being one
\* whose push failed, and Runs having followed it
C5_Witness ==
  \E s \in Sweeps : \E k \in RunIndexes(s) :
    /\ pc[s] = "done"
    /\ runs[s][k].push = "failed"
    /\ k < Len(runs[s])
    /\ Writes(s) = <<ArtifactOf(s, k)>>

\* C6: when every Trainer call of the sweep has failed the sweep ends in the
\* NoSuccessfulRun branch, and no sweep without a successful Run ever calls
\* save_best_model.
C6_AllFailEndsNoSuccessfulRun ==
  \A s \in Sweeps :
    /\ (Ended(s) /\ Failed(s) # {} /\ Succeeded(s) = {}) => pc[s] = "no_model"
    /\ Succeeded(s) = {} => Writes(s) = <<>>

\* C7: a process whose main() runs to its end exits 0 exactly when a Run has
\* succeeded, and then the best artifact has been persisted.
C7_ExitCodeContract ==
  \A s \in Sweeps :
    (Ended(s) /\ raised[s] = None) =>
      /\ Succeeded(s) # {} => exit_code[s] = <<0>> /\ Writes(s) # <<>>
      /\ Succeeded(s) = {} => exit_code[s] # <<0>>

\* C8: at every point of the sweep best_model is set iff a Run with accuracy
\* above the sentinel 0 has gone through the best-tracking step, and then
\* best_model, best_run_id and best_accuracy are those of the first Run with
\* the highest accuracy among the Runs considered so far.
C8_BestTrackerInvariant ==
  \A s \in Sweeps :
    /\ best_model[s] # None <=> \E k \in Considered(s) : runs[s][k].accuracy > 0
    /\ best_model[s] # None =>
         \E k \in Considered(s) : FirstMax(s, Considered(s), k) /\ Holds(s, k)

\* two considered Runs tie at the highest accuracy and the tracker holds the
\* earlier one
C8_Witness ==
  \E s \in Sweeps : \E j, k \in Considered(s) :
    /\ j < k
    /\ runs[s][j].accuracy = runs[s][k].accuracy
    /\ runs[s][j].accuracy > 0
    /\ FirstMax(s, Considered(s), j)
    /\ Holds(s, j)

\* C9: a sweep writes to the Artifact Store at most once, and only once the
\* loop is over: every configuration has been processed and main() is past
\* the save.
C9_SaveOnceAtEnd ==
  \A s \in Sweeps :
    /\ Len(Writes(s)) <= 1
    /\ Writes(s) # <<>> =>
         /\ pc[s] = "done"
         /\ i[s] = NumConfigs(s)
         /\ Considered(s) = 1..NumConfigs(s)

\* a sweep has ended with one write although the best changed during the loop
C9_Witness ==
  \E s \in Sweeps : \E j, k \in Considered(s) :
    /\ pc[s] = "done"
    /\ j < k
    /\ 0 < runs[s][j].accuracy
    /\ runs[s][j].accuracy < runs[s][k].accuracy
    /\ Len(Writes(s)) = 1

\* the timestamp component of a demo run id: its last six characters
Stamp(rid) == SubSeq(rid, Len(rid) - 5, Len(rid))

\* C10: the run identifiers generated within one sweep are pairwise distinct.
C10_RunIdsDistinct ==
  \A s \in Sweeps : \A j, k \in RunIndexes(s) :
    j # k => runs[s][j].run_id # runs[s][k].run_id

\* a demo sweep has minted two run identifiers within the same second
C10_Witness ==
  \E s \in Sweeps : \E j, k \in RunIndexes(s) :
    /\ kind[s] = "demo"
    /\ j # k
    /\ Stamp(runs[s][j].run_id) = Stamp(runs[s][k].run_id)

----------------------------------------------------------------------------
\* Properties of the best tracker's transitions

\* the best-tracking step of sweep s is taken
Tracks(s) == pc[s] = "track" /\ pc'[s] # "track"

TrackerUnchanged(s) ==
  /\ best_accuracy'[s] = best_accuracy[s]
  /\ best_model'[s] = best_model[s]
  /\ best_run_id'[s] = best_run_id[s]

TrackerTakesRun(s) ==
  /\ best_accuracy'[s] = accuracy[s]
  /\ best_model'[s] = model[s]
  /\ best_run_id'[s] = run_id[s]

\* C13: whenever the tracker is EMPTY (best_model is None) and the
\* best-tracking step is taken for a Run that succeeded, whatever its accuracy
\* in [0,1], the tracker takes that Run's run id, metric and model; a step
\* that ends a failed Run leaves the tracker as it is.
C13_EmptyToHolding ==
  [][\A s \in Sweeps :
       /\ (Tracks(s) /\ best_model[s] = None) =>
            TrackerTakesRun(s) /\ best_model'[s] # None
       /\ (raised[s] = None /\ raised'[s] = <<"train_model">>) =>
            TrackerUnchanged(s)]_vars

\* C14: when the tracker is HOLDING and the best-tracking step is taken for a
\* Run whose accuracy is at most best_accuracy, best_accuracy, best_model and
\* best_run_id all stay; when its accuracy is greater, all three become that
\* Run's.
C14_HoldingUpdate ==
  [][\A s \in Sweeps :
       (Tracks(s) /\ best_model[s] # None) =>
         IF accuracy[s] <= best_accuracy[s]
           THEN TrackerUnchanged(s)
           ELSE TrackerTakesRun(s)]_vars

\* a HOLDING tracker has gone through a Run no better than the one held and
\* then through a better one, which it holds
C14_Witness ==
  \E s \in Sweeps : \E j, k, l \in Considered(s) :
    /\ j < k /\ k < l
    /\ 0 < runs[s][j].accuracy
    /\ runs[s][k].accuracy <= runs[s][j].accuracy
    /\ runs[s][j].accuracy < runs[s][l].accuracy
    /\ Holds(s, l)

\* C15: in the tracked sweep the identifier the Run Recorder assigned is the
\* Run's identifier everywhere: every Run's identifier is one the tracking
\* server assigned, the Metrics Emitter is handed the identifier of the Run
\* it reports, best_run_id is the identifier of the Run whose model is
\* best_model, and the persisted file is named after the identifier of the
\* Run that produced the persisted model.
C15_RecorderIdIsCanonical ==
  \A s \in Sweeps :
    kind[s] = "tracked" =>
      /\ \A k \in RunIndexes(s) :
           /\ runs[s][k].run_id \in {MlflowRunId(n) : n \in 1..mlflow_runs}
           /\ runs[s][k].push # "none" => runs[s][k].push_run_id = runs[s][k].run_id
      /\ best_model[s] # None => \E k \in RunIndexes(s) : Holds(s, k)
      /\ \A w \in 1..Len(Writes(s)) :
           \E k \in RunIndexes(s) :
             Writes(s)[w] = ArtifactOf(s, k) /\ best_model[s] = runs[s][k].model

\* a tracked sweep has persisted the model of a Run that was not its last one
C15_Witness ==
  \E s \in Sweeps : \E k \in RunIndexes(s) :
    /\ kind[s] = "tracked"
    /\ k < Len(runs[s])
    /\ runs[s][k].push_run_id = runs[s][k].run_id
    /\ Writes(s) = <<ArtifactOf(s, k)>>

\* the positions of train_and_push.main() inside the `with` block
InRunBody ==
  {"log_params", "train_model", "log_metrics", "log_model", "log_meta",
   "push", "track", "end_run"}

\* C18: in train_and_push.main at most one run is active at any time; inside
\* the `with` block it is the run of the current iteration, and none is
\* active before the loop, between two iterations, after the loop and once
\* the process has ended, however the block was left.
C18_RunsClosed ==
  \A s \in Sweeps :
    kind[s] = "tracked" =>
      /\ Len(active_run[s]) <= 1
      /\ pc[s] \in InRunBody => active_run[s] = <<Current(s).run_id>>
      /\ pc[s] \notin InRunBody => active_run[s] = <<>>

\* a tracked sweep whose second run was left by the Trainer's exception
C18_Witness ==
  \E s \in Sweeps :
    /\ kind[s] = "tracked"
    /\ pc[s] = "crashed"
    /\ raised[s] = <<"train_model">>
    /\ Len(runs[s]) = 2
    /\ active_run[s] = <<>>

\* C20: best_accuracy never decreases, and in every state best_model is None
\* exactly when best_run_id is None, exactly when best_accuracy is 0.
C20_TrackerConsistent ==
  /\ [](\A s \in Sweeps :
          /\ best_model[s] = None <=> best_run_id[s] = None
          /\ best_run_id[s] = None <=> best_accuracy[s] = 0)
  /\ [][\A s \in Sweeps : best_accuracy'[s] >= best_accuracy[s]]_vars

\* the tracker stayed empty through a Run of accuracy 0, then took a Run and
\* kept it through a Run of lower accuracy
C20_Witness ==
  \E s \in Sweeps : \E j, k, l \in Considered(s) :
    /\ j < k /\ k < l
    /\ runs[s][j].accuracy = 0
    /\ runs[s][l].accuracy < runs[s][k].accuracy
    /\ Holds(s, k)

----------------------------------------------------------------------------
\* Order of the sweep

\* no Trainer, Run Recorder or Metrics Emitter call of sweep s has failed
NoCollaboratorFailed(s) ==
  /\ raised[s] = None
  /\ \A k \in RunIndexes(s) :
       runs[s][k].trained # "failed" /\ runs[s][k].push # "failed"

\* every step of Run k has been made: the Trainer returned, the push was made
\* (tracked sweep), and the Run went through the best-tracking step
Complete(s, k) ==
  /\ runs[s][k].trained = "ok"
  /\ kind[s] = "tracked" => runs[s][k].push = "ok"
  /\ runs[s][k].considered

\* C17: while no collaborator call fails, the Runs of a sweep are the
\* configurations in list order, one Run per configuration; only the latest
\* Run is ever worked on, its Trainer call, its push and its best-tracking
\* step each happen once, and every earlier Run is complete before the next is
\* started; main() ends with one complete Run per configuration, and it
\* eventually ends.
C17_SequentialSweep ==
  /\ [](\A s \in Sweeps :
          NoCollaboratorFailed(s) =>
            /\ Len(runs[s]) <= NumConfigs(s)
            /\ \A k \in RunIndexes(s) :
                 /\ runs[s][k].cfg = k
                 /\ (k < Len(runs[s]) \/ Ended(s)) => Complete(s, k)
            /\ Ended(s) => Len(runs[s]) = NumConfigs(s))
  /\ [][\A s \in Sweeps : \A k \in RunIndexes(s) :
          runs'[s][k] # runs[s][k] =>
            /\ k = Len(runs[s])
            /\ runs'[s][k].trained # runs[s][k].trained => runs[s][k].trained = "no"
            /\ runs'[s][k].push # runs[s][k].push => runs[s][k].push = "none"
            /\ runs'[s][k].considered # runs[s][k].considered => ~runs[s][k].considered]_vars
  /\ <>(\A s \in Sweeps :
          NoCollaboratorFailed(s) => Ended(s) /\ Len(runs[s]) = NumConfigs(s))

\* a tracked sweep has ended after six complete Runs without any failure
C17_Witness ==
  \E s \in Sweeps :
    /\ kind[s] = "tracked"
    /\ NoCollaboratorFailed(s)
    /\ pc[s] = "done"
    /\ Len(runs[s]) = 6
    /\ \A k \in RunIndexes(s) : Complete(s, k)

----------------------------------------------------------------------------
\* The entry point executed twice, one execution after the other

\* sweep s runs once the sweeps before it have ended
Turn(s) == \A r \in Sweeps : r < s => Ended(r)

\* the first execution is the one in which no collaborator call fails; the
\* second is compared with it
Baseline(s) == s = 1 => NoCollaboratorFailed(s)

InitRerun == InitSweeps({1, 2}) /\ kind[1] = kind[2]

NextRerun ==
  \/ \E s \in Sweeps : Turn(s) /\ Setup(s) /\ Baseline(s)'
  \/ \E s \in Sweeps : Turn(s) /\ StartRun(s) /\ Baseline(s)'
  \/ \E s \in Sweeps : Turn(s) /\ LogParams(s) /\ Baseline(s)'
  \/ \E s \in Sweeps : Turn(s) /\ TrainModel(s) /\ Baseline(s)'
  \/ \E s \in Sweeps : Turn(s) /\ LogMetrics(s) /\ Baseline(s)'
  \/ \E s \in Sweeps : Turn(s) /\ LogModel(s) /\ Baseline(s)'
  \/ \E s \in Sweeps : Turn(s) /\ LogMeta(s) /\ Baseline(s)'
  \/ \E s \in Sweeps : Turn(s) /\ PushMetrics(s) /\ Baseline(s)'
  \/ \E s \in Sweeps : Turn(s) /\ TrackBest(s) /\ Baseline(s)'
  \/ \E s \in Sweeps : Turn(s) /\ EndRun(s) /\ Baseline(s)'
  \/ \E s \in Sweeps : Turn(s) /\ MintRunId(s) /\ Baseline(s)'
  \/ \E s \in Sweeps : Turn(s) /\ SaveBest(s) /\ Baseline(s)'
  \/ \E s \in Sweeps : Turn(s) /\ NoModel(s) /\ Baseline(s)'

SpecRerun == InitRerun /\ [][NextRerun]_vars

\* C11: when the demo is executed again, also within the same clock second,
\* no run identifier of one execution is a run identifier of the other, and
\* the two executions never write the same artifact file.
C11_RerunIdsDistinct ==
  \A s, r \in Sweeps :
    (s # r /\ kind[s] = "demo" /\ kind[r] = "demo") =>
      /\ \A k \in RunIndexes(s) : \A j \in RunIndexes(r) :
           runs[s][k].run_id # runs[r][j].run_id
      /\ \A w \in 1..Len(Writes(s)) : \A v \in 1..Len(Writes(r)) :
           Writes(s)[w].path # Writes(r)[v].path

\* the list positions whose model sweep s has persisted
Selected(s) ==
  {runs[s][k].cfg : k \in {j \in RunIndexes(s) :
     \E w \in 1..Len(Writes(s)) : Writes(s)[w].model = runs[s][j].model}}

\* C16: two executions of the same entry point in which no Trainer call
\* fails, and so with the same accuracy for each configuration, have selected
\* the same list position when both have ended, whatever run identifiers and
\* clock readings they had and whichever Run Recorder and Metrics Emitter
\* calls failed in either.
C16_SelectionDeterministic ==
  \A s, r \in Sweeps :
    (Ended(s) /\ Ended(r) /\ Failed(s) = {} /\ Failed(r) = {}) =>
      Selected(s) = Selected(r)

----------------------------------------------------------------------------
\* Two executions of main() in one process, their steps interleaved in any
\* order, every collaborator call returning, close together in time

\* the seconds the two executions may take together beyond the first one
MaxElapsed == 0

\* seconds passed on the clock since the start
Elapsed == (clock - ClockStart) % (24 * 3600)

\* every collaborator call has returned, and the executions are within
\* MaxElapsed seconds of the start
AllReturn ==
  /\ \A s \in Sweeps : NoCollaboratorFailed(s)
  /\ Elapsed <= MaxElapsed

\* the demo next to the demo, and the demo next to train_and_push
InitSideBySide ==
  /\ InitSweeps({1, 2})
  /\ kind[1] = "demo"

NextSideBySide ==
  \/ \E s \in Sweeps : Setup(s) /\ AllReturn'
  \/ \E s \in Sweeps : StartRun(s) /\ AllReturn'
  \/ \E s \in Sweeps : LogParams(s) /\ AllReturn'
  \/ \E s \in Sweeps : TrainModel(s) /\ AllReturn'
  \/ \E s \in Sweeps : LogMetrics(s) /\ AllReturn'
  \/ \E s \in Sweeps : LogModel(s) /\ AllReturn'
  \/ \E s \in Sweeps : LogMeta(s) /\ AllReturn'
  \/ \E s \in Sweeps : PushMetrics(s) /\ AllReturn'
  \/ \E s \in Sweeps : TrackBest(s) /\ AllReturn'
  \/ \E s \in Sweeps : EndRun(s) /\ AllReturn'
  \/ \E s \in Sweeps : MintRunId(s) /\ AllReturn'
  \/ \E s \in Sweeps : SaveBest(s) /\ AllReturn'
  \/ \E s \in Sweeps : NoModel(s) /\ AllReturn'

SpecSideBySide == InitSideBySide /\ [][NextSideBySide]_vars

\* what main() of sweep s holds in its local variables and has written
Local(s) ==
  <<pc[s], i[s], run_id[s], model[s], accuracy[s], best_accuracy[s],
    best_model[s], best_run_id[s], active_run[s], exit_code[s], raised[s],
    runs[s], Writes(s)>>

\* the model the file at path p holds: the one written to it last
FileAt(p) ==
  LET W == SelectSeq(store, LAMBDA w : w.path = p) IN W[Len(W)].model

\* the list position of the configuration model m was fitted with; on the
\* fixed split and with random_state=42 it determines the fitted model
FittedWith(m) == m[2]

\* the result of sweep s is the one its own Runs give: the first of its Runs
\* with the highest accuracy above 0 is held and persisted under its run id,
\* and nothing is persisted when there is none
OwnResult(s) ==
  LET P == {k \in Considered(s) : 0 < runs[s][k].accuracy} IN
    /\ Considered(s) = 1..NumConfigs(s)
    /\ IF P = {}
         THEN best_model[s] = None /\ best_run_id[s] = None /\ Writes(s) = <<>>
         ELSE \E k \in P :
                /\ FirstMax(s, P, k)
                /\ Holds(s, k)
                /\ Writes(s) = <<ArtifactOf(s, k)>>
                /\ FittedWith(FileAt(ModelPath(best_run_id[s]))) = runs[s][k].cfg

BetweenIterations(s) == pc[s] \in {"start_run", "mint", "select", "done", "no_model"}

\* the list position of the Run the tracker of sweep s holds, if any
BestPosition(s) == {runs[s][k].cfg : k \in {j \in RunIndexes(s) : Holds(s, j)}}

\* C19: the demo and the tracked sweep side by side, every collaborator call
\* returning: whenever both have completed the same number of iterations
\* they hold the same list position and the same best_accuracy, and each has
\* persisted a model at its end exactly when its tracker holds one.
C19_SameSelection ==
  \A d, t \in Sweeps :
    (kind[d] = "demo" /\ kind[t] = "tracked") =>
      /\ (BetweenIterations(d) /\ BetweenIterations(t) /\ i[d] = i[t]) =>
           /\ BestPosition(d) = BestPosition(t)
           /\ best_accuracy[d] = best_accuracy[t]
           /\ best_model[d] = None <=> best_model[t] = None
      /\ \A s \in {d, t} : Ended(s) => (Writes(s) # <<>> <=> best_model[s] # None)

\* the demo has ended with its second Run persisted while the tracked sweep,
\* three iterations into its list, holds its second Run as well
C19_Witness ==
  \E d, t \in Sweeps :
    /\ kind[d] = "demo" /\ kind[t] = "tracked"
    /\ pc[d] = "done" /\ pc[t] = "start_run" /\ i[t] = 3
    /\ BestPosition(d) = {2} /\ BestPosition(t) = {2}
    /\ Writes(d) = <<ArtifactOf(d, 2)>>
=============================================================================
